---- MODULE Spec2Model ----
(***************************************************************************)
(* Order / payment reconciliation of the storefront: the razorpay edge     *)
(* function (create-order, verify-payment), the payments table with its    *)
(* row-level policies, and the checkout page that drives them.             *)
(***************************************************************************)
EXTENDS Integers, Sequences, FiniteSets, TLC

\* ------------------------------------------------------------------ bounds
MaxOrders == 2
MaxGatewayOrders == 2
MaxDeliveries == 2
MaxDirectCalls == 1

\* ------------------------------------------------------- users and roles
Users == {"u1", "u2", "admin"}
NoUser == "anon"
Callers == Users \cup {NoUser}

\* has_role(auth.uid(), 'admin'::app_role)
has_role(uid) == uid = "admin"

\* ------------------------------------------------------- signature (HMAC)
HexDigits == <<"0", "1", "2", "3", "4", "5", "6", "7",
               "8", "9", "a", "b", "c", "d", "e", "f">>

\* TextEncoder.encode of one character of the ids and secrets in use
CharCode(c) ==
  CASE c = "0" -> 48 [] c = "1" -> 49 [] c = "2" -> 50 [] c = "3" -> 51
    [] c = "9" -> 57 [] c = "k" -> 107 [] c = "o" -> 111 [] c = "p" -> 112
    [] c = "|" -> 124 [] OTHER -> 63

encode(str) == [i \in 1..Len(str) |-> CharCode(str[i])]

RECURSIVE XorByte(_, _)
XorByte(a, b) ==
  IF a = 0 /\ b = 0 THEN 0
  ELSE (((a % 2) + (b % 2)) % 2) + 2 * XorByte(a \div 2, b \div 2)

RECURSIVE DigestFold(_, _)
DigestFold(h, bytes) ==
  IF bytes = <<>> THEN h
  ELSE DigestFold((h * 31 + Head(bytes)) % 65536, Tail(bytes))

\* the hash under crypto.subtle.sign, at a width of two bytes
Digest(bytes) ==
  LET h == DigestFold(7, bytes) IN <<h \div 256, h % 256>>

\* crypto.subtle.sign('HMAC', key, message)
HmacSign(keyData, messageData) ==
  LET ipad == [i \in 1..Len(keyData) |-> XorByte(keyData[i], 54)]
      opad == [i \in 1..Len(keyData) |-> XorByte(keyData[i], 92)]
  IN Digest(opad \o Digest(ipad \o messageData))

RECURSIVE hexEncode(_)
hexEncode(bytes) ==
  IF bytes = <<>> THEN <<>>
  ELSE <<HexDigits[(Head(bytes) \div 16) + 1], HexDigits[((Head(bytes)) % 16) + 1]>>
       \o hexEncode(Tail(bytes))

createHmacSha256(secretKey, message) ==
  hexEncode(HmacSign(encode(secretKey), encode(message)))

\* body = razorpay_order_id + '|' + razorpay_payment_id
SignedBody(razorpay_order_id, razorpay_payment_id) ==
  razorpay_order_id \o <<"|">> \o razorpay_payment_id

SignatureMismatchPrefixOnly(expectedSignature, razorpay_signature) ==
  Len(razorpay_signature) < 1 \/ expectedSignature[1] # razorpay_signature[1]

\* expectedSignature !== razorpay_signature
SignatureMismatch(expectedSignature, razorpay_signature) ==
  expectedSignature # razorpay_signature

\* ------------------------------------------------------------------ state
Variants == {"v1", "v2"}
SessionIds == {"s1"}
Deliveries == 1..MaxDeliveries
NoId == <<>>

VARIABLES
  secret,       \* RAZORPAY_KEY_SECRET
  orders,       \* table orders: id -> row
  order_items,  \* table order_items, in insertion order
  payments,     \* table payments, in insertion order
  stock,        \* product_variants.stock_quantity by variant id
  gwRequests,   \* requests the function has sent to POST /v1/orders
  gwOrders,     \* orders the gateway has created
  gwPayments,   \* gateway order id -> the widget's response, once paid
  last,         \* the last request to the edge function, its response, and whether the
                \* store failed a statement of that run
  cart,         \* CartContext items, per browser session
  sess,         \* Checkout page state, per browser session
  hnd,          \* runs of the Razorpay success handler, per session and delivery
  ncalls        \* requests posted to the function from outside the checkout page

db == <<orders, order_items, payments, stock>>
gateway == <<gwRequests, gwOrders, gwPayments>>
vars == <<secret, orders, order_items, payments, stock, gwRequests, gwOrders,
          gwPayments, last, cart, sess, hnd, ncalls>>

\* ------------------------------------------------- row-level policies
\* "Users can create own payments": WITH CHECK (auth.uid() = user_id)
PaymentsInsertAllowed(uid, row) == uid # NoUser /\ uid = row.user_id

\* "Admins can update payments": the only UPDATE policy of the table
PaymentsUpdateAllowed(uid, row) == has_role(uid)

\* orders: the owning user and administrators may update a row
OrdersUpdateAllowed(uid, row) == uid = row.user_id \/ has_role(uid)

\* ------------------------------------------------- the edge function
NoResponse == [status |-> 0, error |-> "", valid |-> FALSE, razorpay_order_id |-> NoId]
Response(status, error, valid, rid) ==
  [status |-> status, error |-> error, valid |-> valid, razorpay_order_id |-> rid]

CreateOrderRequest(orderId, amount) ==
  [method |-> "POST", action |-> "create-order", orderId |-> orderId, amount |-> amount,
   razorpay_order_id |-> NoId, razorpay_payment_id |-> NoId, razorpay_signature |-> NoId]

VerifyPaymentRequest(roid, pid, sig, orderId) ==
  [method |-> "POST", action |-> "verify-payment", orderId |-> orderId, amount |-> 0,
   razorpay_order_id |-> roid, razorpay_payment_id |-> pid, razorpay_signature |-> sig]

\* a request that carries neither of the two actions
OtherRequest(method, action) ==
  [method |-> method, action |-> action, orderId |-> 0, amount |-> 0,
   razorpay_order_id |-> NoId, razorpay_payment_id |-> NoId, razorpay_signature |-> NoId]

\* what a run of the function leaves behind, and what it answers
Outcome(p, o, gr, go, resp, outage) ==
  [payments |-> p, orders |-> o, gwRequests |-> gr, gwOrders |-> go, resp |-> resp,
   outage |-> outage]

GatewayOrderIdReused(n) == <<"o", "1">>

\* razorpayOrder.id: the gateway names every order it creates afresh
GatewayOrderId(n) == <<"o", HexDigits[n + 1]>>
GatewayPaymentId(roid) == <<"p", roid[2]>>

AuthErrorSkipped(caller) == FALSE

\* const { data: { user }, error: authError } = await supabaseClient.auth.getUser()
AuthError(caller) == caller = NoUser

CreateOrderKeepsQuiet(caller, req, gw, storeOk) ==
  LET sent == gwRequests \cup {[amount |-> req.amount * 100, receipt |-> req.orderId]}
      rid == GatewayOrderId(Len(gwOrders) + 1)
      created == Append(gwOrders, [id |-> rid, amount |-> req.amount * 100,
                                   receipt |-> req.orderId])
      row == [order_id |-> req.orderId, user_id |-> caller, razorpay_order_id |-> rid,
              razorpay_payment_id |-> NoId, razorpay_signature |-> NoId,
              amount |-> req.amount, status |-> "pending", error_message |-> ""]
      inserted == storeOk /\ req.orderId \in DOMAIN orders
                  /\ PaymentsInsertAllowed(caller, row)
  IN CASE gw = "unreachable" ->
            Outcome(payments, orders, sent, gwOrders, Response(500, "fetch failed", FALSE, NoId),
                    FALSE)
       [] gw = "reject" ->
            Outcome(payments, orders, sent, gwOrders,
                    Response(400, "Failed to create Razorpay order", FALSE, NoId), FALSE)
       [] OTHER ->
            Outcome(IF inserted THEN Append(payments, row) ELSE payments,
                    orders, sent, created, Response(200, "", FALSE, rid), ~storeOk)

\* action === 'create-order'
CreateOrder(caller, req, gw, storeOk) ==
  LET sent == gwRequests \cup {[amount |-> req.amount * 100, receipt |-> req.orderId]}
      rid == GatewayOrderId(Len(gwOrders) + 1)
      created == Append(gwOrders, [id |-> rid, amount |-> req.amount * 100,
                                   receipt |-> req.orderId])
      row == [order_id |-> req.orderId, user_id |-> caller, razorpay_order_id |-> rid,
              razorpay_payment_id |-> NoId, razorpay_signature |-> NoId,
              amount |-> req.amount, status |-> "pending", error_message |-> ""]
      inserted == storeOk /\ req.orderId \in DOMAIN orders
                  /\ PaymentsInsertAllowed(caller, row)
  IN CASE gw = "unreachable" ->
            Outcome(payments, orders, sent, gwOrders, Response(500, "fetch failed", FALSE, NoId),
                    FALSE)
       [] gw = "reject" ->
            Outcome(payments, orders, sent, gwOrders,
                    Response(400, "Failed to create Razorpay order", FALSE, NoId), FALSE)
       [] ~inserted ->
            Outcome(payments, orders, sent, created,
                    Response(500, "Failed to store payment record", FALSE, NoId), ~storeOk)
       [] OTHER ->
            Outcome(Append(payments, row), orders, sent, created,
                    Response(200, "", FALSE, rid), FALSE)

\* action === 'verify-payment'
VerifyPayment(caller, req, payOk, ordOk) ==
  LET expectedSignature ==
        createHmacSha256(secret, SignedBody(req.razorpay_order_id, req.razorpay_payment_id))
      hit(row) == row.razorpay_order_id = req.razorpay_order_id
                  /\ payOk /\ PaymentsUpdateAllowed(caller, row)
      failed == [i \in 1..Len(payments) |->
                   IF hit(payments[i])
                   THEN [payments[i] EXCEPT !.status = "failed",
                           !.error_message = "Signature verification failed"]
                   ELSE payments[i]]
      completed == [i \in 1..Len(payments) |->
                      IF hit(payments[i])
                      THEN [payments[i] EXCEPT !.status = "completed",
                              !.razorpay_payment_id = req.razorpay_payment_id,
                              !.razorpay_signature = req.razorpay_signature]
                      ELSE payments[i]]
      confirmed == [id \in DOMAIN orders |->
                      IF id = req.orderId /\ ordOk /\ OrdersUpdateAllowed(caller, orders[id])
                      THEN [orders[id] EXCEPT !.status = "confirmed",
                              !.payment_method = "razorpay"]
                      ELSE orders[id]]
  IN IF SignatureMismatch(expectedSignature, req.razorpay_signature)
     THEN Outcome(failed, orders, gwRequests, gwOrders,
                  Response(400, "Payment verification failed", FALSE, NoId), ~payOk)
     ELSE Outcome(completed, confirmed, gwRequests, gwOrders,
                  Response(200, "", TRUE, NoId), ~payOk \/ ~ordOk)

\* serve(async (req) => ...): one request, start to response
serve(caller, req, gw, payOk, ordOk) ==
  IF req.method = "OPTIONS"
  THEN Outcome(payments, orders, gwRequests, gwOrders, Response(200, "", FALSE, NoId), FALSE)
  ELSE IF AuthError(caller)
  THEN Outcome(payments, orders, gwRequests, gwOrders, Response(401, "Unauthorized", FALSE, NoId),
               FALSE)
  ELSE IF req.action = "create-order" THEN CreateOrder(caller, req, gw, payOk)
  ELSE IF req.action = "verify-payment" THEN VerifyPayment(caller, req, payOk, ordOk)
  ELSE Outcome(payments, orders, gwRequests, gwOrders, Response(400, "Invalid action", FALSE, NoId),
               FALSE)

\* the effect of one run of the function on the stores, the gateway and `last`
Served(caller, req, out) ==
  /\ payments' = out.payments
  /\ orders' = out.orders
  /\ gwRequests' = out.gwRequests
  /\ gwOrders' = out.gwOrders
  /\ last' = [tick |-> 1 - last.tick, caller |-> caller, req |-> req, resp |-> out.resp,
               outage |-> out.outage]

\* the ways the gateway and the store can answer one run of the function
Environments(req) ==
  IF req.action = "create-order"
  THEN {[gw |-> "ok", payOk |-> TRUE, ordOk |-> TRUE],
        [gw |-> "ok", payOk |-> FALSE, ordOk |-> TRUE],
        [gw |-> "reject", payOk |-> TRUE, ordOk |-> TRUE],
        [gw |-> "unreachable", payOk |-> TRUE, ordOk |-> TRUE]}
  ELSE {[gw |-> "ok", payOk |-> a, ordOk |-> b] : a \in BOOLEAN, b \in BOOLEAN}

\* ------------------------------------------------- the checkout page
SHIPPING_COST == 10
InitStock == 4

CartItem(v, q, price) == [variantId |-> v, quantity |-> q, price |-> price]
Carts == { <<CartItem("v1", 2, 5), CartItem("v2", 5, 7)>> }

RECURSIVE CartTotalOfPrices(_)
CartTotalOfPrices(items) ==
  IF items = <<>> THEN 0
  ELSE Head(items).price + CartTotalOfPrices(Tail(items))

RECURSIVE CartTotal(_)
\* items.reduce((sum, item) => sum + item.price * item.quantity, 0)
CartTotal(items) ==
  IF items = <<>> THEN 0
  ELSE Head(items).price * Head(items).quantity + CartTotal(Tail(items))

NoRequest == OtherRequest("", "")

\* a text field of the address form, as far as the schema looks at it: its length
Field(len) == len

\* useState({ fullName: '', address: '', city: '', state: '', zipCode: '', phone: '' })
EmptyForm == [fullName |-> Field(0), address |-> Field(0), city |-> Field(0),
              state |-> Field(0), zipCode |-> Field(0), phone |-> Field(0)]

\* an address every rule of the schema accepts
ValidForm == [fullName |-> Field(1), address |-> Field(1), city |-> Field(1),
              state |-> Field(1), zipCode |-> Field(5), phone |-> Field(10)]

addressSchemaWithoutPhone(form) ==
  /\ form.fullName >= 1 /\ form.fullName <= 100
  /\ form.address >= 1 /\ form.address <= 200
  /\ form.city >= 1 /\ form.city <= 100
  /\ form.state >= 1 /\ form.state <= 50
  /\ form.zipCode >= 5 /\ form.zipCode <= 10

\* addressSchema.parse(formData) does not throw
addressSchema(form) ==
  /\ form.fullName >= 1 /\ form.fullName <= 100
  /\ form.address >= 1 /\ form.address <= 200
  /\ form.city >= 1 /\ form.city <= 100
  /\ form.state >= 1 /\ form.state <= 50
  /\ form.zipCode >= 5 /\ form.zipCode <= 10
  /\ form.phone >= 10 /\ form.phone <= 15

\* the lengths on either side of every limit of the schema
FieldLengths ==
  [fullName |-> {0, 1, 100, 101}, address |-> {0, 1, 200, 201}, city |-> {0, 1, 100, 101},
   state |-> {0, 1, 50, 51}, zipCode |-> {0, 4, 5, 10, 11}, phone |-> {0, 9, 10, 15, 16}]

\* the empty form, a valid one, and every form that differs from the valid one in
\* one field
Forms ==
  {EmptyForm, ValidForm}
  \cup UNION { { [ValidForm EXCEPT ![f] = Field(n)] : n \in FieldLengths[f] } :
               f \in DOMAIN FieldLengths }

IdleHandler == [pc |-> "idle", idx |-> 0, variant |-> 0, forged |-> FALSE, valid |-> FALSE]

\* the state once the store is seeded and every browser in `sessions` shows the form,
\* its cart one of `carts`
InitOver(sessions, secrets, carts) ==
  /\ secret \in secrets
  /\ orders = <<>>
  /\ order_items = <<>>
  /\ payments = <<>>
  /\ stock = [v \in Variants |-> InitStock]
  /\ gwRequests = {}
  /\ gwOrders = <<>>
  /\ gwPayments = <<>>
  /\ last = [tick |-> 0, caller |-> NoUser, req |-> NoRequest, resp |-> NoResponse,
             outage |-> FALSE]
  /\ cart \in [sessions -> carts]
  /\ \E u \in [sessions -> {"u1", "admin"}] :
        sess = [s \in sessions |->
                  [user |-> u[s], pc |-> "form", loading |-> FALSE, items |-> <<>>,
                   order |-> 0, idx |-> 0, rzp |-> NoId, form |-> EmptyForm,
                   view |-> <<>>]]
  /\ hnd = [s \in sessions |-> [d \in Deliveries |-> IdleHandler]]
  /\ ncalls = 0

InitWith(secrets) == InitOver(SessionIds, secrets, Carts)

Init == InitWith({<<"k", "1">>})

\* catch (error) { ...; setLoading(false) }
Caught(s) == [sess[s] EXCEPT !.loading = FALSE, !.pc = "form"]

\* handleSubmit up to the insert into orders, the form filled in as one of `forms`;
\* addressSchema.parse(formData) or the insert may throw
SubmitOf(s, forms) ==
  /\ sess[s].pc = "form"
  /\ cart[s] # <<>>
  /\ Cardinality(DOMAIN orders) < MaxOrders
  /\ \E form \in forms, storeOk \in BOOLEAN :
       LET id == Cardinality(DOMAIN orders) + 1
           total == CartTotal(cart[s])
           row == [user_id |-> sess[s].user, status |-> "pending", subtotal |-> total,
                   shipping_cost |-> SHIPPING_COST, total |-> total + SHIPPING_COST,
                   payment_method |-> "razorpay"]
       IN IF addressSchema(form) /\ storeOk
          THEN /\ orders' = orders @@ (id :> row)
               /\ sess' = [sess EXCEPT ![s] = [@ EXCEPT !.loading = TRUE, !.pc = "items",
                                                 !.items = cart[s], !.order = id, !.idx = 1,
                                                 !.form = form]]
          ELSE /\ orders' = orders
               /\ sess' = [sess EXCEPT ![s] = [Caught(s) EXCEPT !.form = form]]
  /\ UNCHANGED <<secret, order_items, payments, stock, gateway, last, cart, hnd, ncalls>>

\* the form is submitted empty or filled in properly
Submit(s) == SubmitOf(s, {EmptyForm, ValidForm})

\* the form is submitted with any of the addresses
SubmitAny(s) == SubmitOf(s, Forms)

InsertItemIgnoringErrors(s) ==
  /\ sess[s].pc = "items"
  /\ \E storeOk \in BOOLEAN :
       LET item == sess[s].items[sess[s].idx]
           row == [order_id |-> sess[s].order, variant_id |-> item.variantId,
                   quantity |-> item.quantity, unit_price |-> item.price,
                   total_price |-> item.price * item.quantity]
       IN /\ order_items' = IF storeOk THEN Append(order_items, row) ELSE order_items
          /\ sess' = [sess EXCEPT ![s] =
                        IF sess[s].idx = Len(sess[s].items)
                        THEN [@ EXCEPT !.pc = "begin"]
                        ELSE [@ EXCEPT !.idx = @ + 1]]
  /\ UNCHANGED <<secret, orders, payments, stock, gateway, last, cart, hnd, ncalls>>

\* for (const item of items) { insert into order_items }
InsertItem(s) ==
  /\ sess[s].pc = "items"
  /\ \E storeOk \in BOOLEAN :
       LET item == sess[s].items[sess[s].idx]
           row == [order_id |-> sess[s].order, variant_id |-> item.variantId,
                   quantity |-> item.quantity, unit_price |-> item.price,
                   total_price |-> item.price * item.quantity]
       IN IF storeOk
          THEN /\ order_items' = Append(order_items, row)
               /\ sess' = [sess EXCEPT ![s] =
                             IF sess[s].idx = Len(sess[s].items)
                             THEN [@ EXCEPT !.pc = "begin"]
                             ELSE [@ EXCEPT !.idx = @ + 1]]
          ELSE /\ order_items' = order_items
               /\ sess' = [sess EXCEPT ![s] = Caught(s)]
  /\ UNCHANGED <<secret, orders, payments, stock, gateway, last, cart, hnd, ncalls>>

\* supabase.functions.invoke('razorpay', { action: 'create-order', ... }) and what follows
BeginPayment(s) ==
  /\ sess[s].pc = "begin"
  /\ Len(gwOrders) < MaxGatewayOrders
  /\ \E reached \in BOOLEAN, env \in Environments(CreateOrderRequest(0, 0)) :
       LET req == CreateOrderRequest(sess[s].order, orders[sess[s].order].total)
           out == serve(sess[s].user, req, env.gw, env.payOk, env.ordOk)
       IN IF reached
          THEN /\ Served(sess[s].user, req, out)
               /\ sess' = [sess EXCEPT ![s] =
                             IF out.resp.status # 200
                             THEN [@ EXCEPT !.loading = FALSE, !.pc = "form"]
                             ELSE [@ EXCEPT !.pc = "widget",
                                            !.rzp = out.resp.razorpay_order_id]]
          ELSE /\ sess' = [sess EXCEPT ![s] = [@ EXCEPT !.loading = FALSE, !.pc = "form"]]
               /\ UNCHANGED <<orders, payments, gwRequests, gwOrders, last>>
  /\ UNCHANGED <<secret, order_items, stock, gwPayments, cart, hnd, ncalls>>

\* razorpay.on('payment.failed', ...)
PaymentFailed(s) ==
  /\ sess[s].pc = "widget"
  /\ hnd[s][1].pc = "idle"
  /\ sess' = [sess EXCEPT ![s].loading = FALSE]
  /\ UNCHANGED <<secret, db, gateway, last, cart, hnd, ncalls>>

DismissClearsCart(s) ==
  /\ sess[s].pc = "widget"
  /\ hnd[s][1].pc = "idle"
  /\ sess' = [sess EXCEPT ![s] = [@ EXCEPT !.loading = FALSE, !.pc = "form"]]
  /\ cart' = [cart EXCEPT ![s] = <<>>]
  /\ UNCHANGED <<secret, db, gateway, last, hnd, ncalls>>

\* modal.ondismiss
Dismiss(s) ==
  /\ sess[s].pc = "widget"
  /\ hnd[s][1].pc = "idle"
  /\ sess' = [sess EXCEPT ![s] = [@ EXCEPT !.loading = FALSE, !.pc = "form"]]
  /\ UNCHANGED <<secret, db, gateway, last, cart, hnd, ncalls>>

\* what the gateway signs for a captured payment
GatewaySignature(roid, pid) == createHmacSha256(secret, SignedBody(roid, pid))

\* the response the widget hands to handler(response)
GatewayResponse(roid) ==
  [razorpay_order_id |-> roid, razorpay_payment_id |-> GatewayPaymentId(roid),
   razorpay_signature |-> GatewaySignature(roid, GatewayPaymentId(roid))]

\* the widget reports a captured payment: handler(response) starts
WidgetSuccess(s, d) ==
  /\ sess[s].pc \in {"widget", "orders"}
  /\ hnd[s][d].pc = "idle"
  /\ IF d = 1 THEN sess[s].pc = "widget" ELSE hnd[s][d - 1].pc # "idle"
  /\ gwPayments' = IF sess[s].rzp \in DOMAIN gwPayments THEN gwPayments
                   ELSE gwPayments @@ (sess[s].rzp :> GatewayResponse(sess[s].rzp))
  /\ hnd' = [hnd EXCEPT ![s][d].pc = "verify"]
  /\ UNCHANGED <<secret, db, gwRequests, gwOrders, last, cart, sess, ncalls>>

\* a signature made up without the secret
ForgedSignature == <<"0", "0", "0", "0">>

\* handler(response) is called with a response whose signature the gateway never issued
TamperedSuccess(s, d) ==
  /\ sess[s].pc \in {"widget", "orders"}
  /\ hnd[s][d].pc = "idle"
  /\ IF d = 1 THEN sess[s].pc = "widget" ELSE hnd[s][d - 1].pc # "idle"
  /\ hnd' = [hnd EXCEPT ![s][d] = [@ EXCEPT !.pc = "verify", !.forged = TRUE]]
  /\ UNCHANGED <<secret, db, gateway, last, cart, sess, ncalls>>

\* the response handler(response) was called with
HandlerResponse(s, d) ==
  IF hnd[s][d].forged
  THEN [razorpay_order_id |-> sess[s].rzp, razorpay_payment_id |-> GatewayPaymentId(sess[s].rzp),
        razorpay_signature |-> ForgedSignature]
  ELSE gwPayments[sess[s].rzp]

VerificationPassedAnyway(reached, resp) == FALSE

\* if (verifyError || !verifyData?.valid)
VerificationFailed(reached, resp) == ~reached \/ resp.status # 200 \/ ~resp.valid

\* clearCart(); navigate('/orders') once the loop over items is through
Advance(s, d) ==
  IF hnd[s][d].idx = Len(sess[s].items)
  THEN /\ hnd' = [hnd EXCEPT ![s][d] = [@ EXCEPT !.pc = "finished"]]
       /\ cart' = [cart EXCEPT ![s] = <<>>]
       /\ sess' = [sess EXCEPT ![s].pc = "orders"]
  ELSE /\ hnd' = [hnd EXCEPT ![s][d] = [@ EXCEPT !.pc = "read", !.idx = @ + 1]]
       /\ UNCHANGED <<cart, sess>>

\* handler: invoke verify-payment; if (verifyError || !verifyData?.valid) return
HandlerVerify(s, d) ==
  /\ hnd[s][d].pc = "verify"
  /\ \E reached \in BOOLEAN, payOk \in BOOLEAN, ordOk \in BOOLEAN :
       LET response == HandlerResponse(s, d)
           req == VerifyPaymentRequest(response.razorpay_order_id, response.razorpay_payment_id,
                                       response.razorpay_signature, sess[s].order)
           out == serve(sess[s].user, req, "ok", payOk, ordOk)
           valid == reached /\ out.resp.status = 200 /\ out.resp.valid
       IN /\ IF reached
             THEN Served(sess[s].user, req, out)
             ELSE UNCHANGED <<orders, payments, gwRequests, gwOrders, last>>
          /\ hnd' = [hnd EXCEPT ![s][d] =
                       IF VerificationFailed(reached, out.resp)
                       THEN [@ EXCEPT !.pc = "returned", !.valid = valid]
                       ELSE [@ EXCEPT !.pc = "read", !.idx = 1, !.valid = valid]]
  /\ UNCHANGED <<secret, order_items, stock, gwPayments, cart, sess, ncalls>>

\* handler: select stock_quantity of the item's variant
HandlerRead(s, d) ==
  /\ hnd[s][d].pc = "read"
  /\ \E storeOk \in BOOLEAN :
       IF storeOk
       THEN /\ hnd' = [hnd EXCEPT ![s][d] =
                         [@ EXCEPT !.pc = "write",
                                   !.variant = stock[sess[s].items[hnd[s][d].idx].variantId]]]
            /\ UNCHANGED <<cart, sess>>
       ELSE Advance(s, d)
  /\ UNCHANGED <<secret, db, gateway, last, ncalls>>

\* handler: update stock_quantity to variant.stock_quantity - item.quantity
HandlerWrite(s, d) ==
  /\ hnd[s][d].pc = "write"
  /\ \E storeOk \in BOOLEAN :
       LET item == sess[s].items[hnd[s][d].idx]
       IN /\ stock' = IF storeOk
                      THEN [stock EXCEPT ![item.variantId] = hnd[s][d].variant - item.quantity]
                      ELSE stock
          /\ Advance(s, d)
  /\ UNCHANGED <<secret, orders, order_items, payments, gateway, last, ncalls>>

\* ------------------------------------------------- the cart
\* the quantity the cart holds of a variant, over all its lines
RECURSIVE QuantityOfLines(_, _)
QuantityOfLines(items, v) ==
  IF items = <<>> THEN 0
  ELSE (IF Head(items).variantId = v THEN Head(items).quantity ELSE 0)
       + QuantityOfLines(Tail(items), v)

MaxCartQuantity == 8

\* the quantities a line may be given in one call
CartQuantities == 1..MaxCartQuantity

\* base_price + price_adjustment of a variant
PriceOf(v) == IF v = "v1" THEN 5 ELSE 7

\* current.findIndex((i) => i.variantId === item.variantId), 0 for -1
findIndex(items, v) ==
  LET hits == {i \in 1..Len(items) : items[i].variantId = v}
  IN IF hits = {} THEN 0 ELSE CHOOSE i \in hits : \A j \in hits : i <= j

addItemAlwaysAppends(items, item) == Append(items, item)

\* addItem: add to the line of the variant, or append a line
addItem(items, item) ==
  LET existingIndex == findIndex(items, item.variantId)
  IN IF existingIndex > 0
     THEN [items EXCEPT ![existingIndex].quantity = @ + item.quantity]
     ELSE Append(items, item)

\* removeItem: current.filter((item) => item.variantId !== variantId)
RECURSIVE removeItem(_, _)
removeItem(items, v) ==
  IF items = <<>> THEN <<>>
  ELSE IF Head(items).variantId = v
       THEN removeItem(Tail(items), v)
       ELSE <<Head(items)>> \o removeItem(Tail(items), v)

\* updateQuantity: remove the line for a quantity <= 0, else set the quantity of
\* every line of the variant
updateQuantity(items, v, quantity) ==
  IF quantity <= 0
  THEN removeItem(items, v)
  ELSE [i \in 1..Len(items) |->
          IF items[i].variantId = v THEN [items[i] EXCEPT !.quantity = quantity]
          ELSE items[i]]

\* clearCart: setItems([])
clearCart(items) == <<>>

\* the context's operations, called with any arguments
AddItem(s, v, quantity) ==
  /\ QuantityOfLines(cart[s], v) + quantity <= MaxCartQuantity
  /\ cart' = [cart EXCEPT ![s] = addItem(@, CartItem(v, quantity, PriceOf(v)))]
  /\ UNCHANGED <<secret, db, gateway, last, sess, hnd, ncalls>>

UpdateQuantity(s, v, quantity) ==
  /\ cart' = [cart EXCEPT ![s] = updateQuantity(@, v, quantity)]
  /\ UNCHANGED <<secret, db, gateway, last, sess, hnd, ncalls>>

RemoveItem(s, v) ==
  /\ cart' = [cart EXCEPT ![s] = removeItem(@, v)]
  /\ UNCHANGED <<secret, db, gateway, last, sess, hnd, ncalls>>

ClearCart(s) ==
  /\ cart' = [cart EXCEPT ![s] = clearCart(@)]
  /\ UNCHANGED <<secret, db, gateway, last, sess, hnd, ncalls>>

\* the product page: handleAddToCart with the quantity picked
AddToCart(s, v, quantity) ==
  /\ sess[s].user # NoUser
  /\ QuantityOfLines(cart[s], v) + quantity <= MaxCartQuantity
  /\ cart' = [cart EXCEPT ![s] =
                IF stock[v] < quantity THEN @
                ELSE addItem(@, CartItem(v, quantity, PriceOf(v)))]
  /\ UNCHANGED <<secret, db, gateway, last, sess, hnd, ncalls>>

\* the cart page: the plus button of line i
CartPlus(s, i) ==
  /\ i \in 1..Len(cart[s])
  /\ cart[s][i].quantity < MaxCartQuantity
  /\ cart' = [cart EXCEPT ![s] = updateQuantity(@, cart[s][i].variantId,
                                                 cart[s][i].quantity + 1)]
  /\ UNCHANGED <<secret, db, gateway, last, sess, hnd, ncalls>>

\* the cart page: the minus button of line i
CartMinus(s, i) ==
  /\ i \in 1..Len(cart[s])
  /\ cart' = [cart EXCEPT ![s] = updateQuantity(@, cart[s][i].variantId,
                                                 cart[s][i].quantity - 1)]
  /\ UNCHANGED <<secret, db, gateway, last, sess, hnd, ncalls>>

\* the cart page: the remove button of line i
CartRemove(s, i) ==
  /\ i \in 1..Len(cart[s])
  /\ cart' = [cart EXCEPT ![s] = removeItem(@, cart[s][i].variantId)]
  /\ UNCHANGED <<secret, db, gateway, last, sess, hnd, ncalls>>

\* the browser opens the shop with nothing in the cart
InitCart == InitOver(SessionIds, {<<"k", "1">>}, {<<>>})

NextCart ==
  \/ \E s \in SessionIds, v \in Variants, q \in CartQuantities : AddItem(s, v, q)
  \/ \E s \in SessionIds, v \in Variants, q \in -1..MaxCartQuantity : UpdateQuantity(s, v, q)
  \/ \E s \in SessionIds, v \in Variants : RemoveItem(s, v)
  \/ \E s \in SessionIds : ClearCart(s)

\* the cart context alone, its operations called in any order
SpecCart == InitCart /\ [][NextCart]_vars

NextShop ==
  \/ \E s \in SessionIds, v \in Variants, q \in CartQuantities : AddToCart(s, v, q)
  \/ \E s \in SessionIds : \E i \in 1..Len(cart[s]) : CartPlus(s, i)
  \/ \E s \in SessionIds : \E i \in 1..Len(cart[s]) : CartMinus(s, i)
  \/ \E s \in SessionIds : \E i \in 1..Len(cart[s]) : CartRemove(s, i)

\* the product page and the cart page
SpecShop == InitCart /\ [][NextShop]_vars

\* ------------------------------------------------- the orders page and the admin page
\* select * from orders where user_id = user.id, as the page then renders it
OrdersOf(user, rows) ==
  [id \in {i \in DOMAIN rows : rows[i].user_id = user} |-> rows[id].status]

\* useQuery(['orders', user.id]) fetches, or fetches again
LoadOrders(s) ==
  /\ sess' = [sess EXCEPT ![s].view = OrdersOf(sess[s].user, orders)]
  /\ UNCHANGED <<secret, db, gateway, last, cart, hnd, ncalls>>

\* the Cancel Order button is rendered for these statuses
canCancelOrder(status) == status = "pending" \/ status = "processing"

\* update orders set status = 'cancelled' where id = orderId and user_id = user.id
CancelledRows(user, id) ==
  IF id \in DOMAIN orders /\ orders[id].user_id = user /\ OrdersUpdateAllowed(user, orders[id])
  THEN [orders EXCEPT ![id].status = "cancelled"]
  ELSE orders

\* the Cancel Order button of a rendered order is pressed: cancelOrderMutation, and
\* on success the list is fetched again
CancelOrder(s, id) ==
  /\ id \in DOMAIN sess[s].view
  /\ canCancelOrder(sess[s].view[id])
  /\ \E storeOk \in BOOLEAN :
       IF storeOk
       THEN /\ orders' = CancelledRows(sess[s].user, id)
            /\ sess' = [sess EXCEPT ![s].view = OrdersOf(sess[s].user, orders')]
       ELSE UNCHANGED <<orders, sess>>
  /\ UNCHANGED <<secret, order_items, payments, stock, gateway, last, cart, hnd, ncalls>>

\* the statuses the admin page offers for every order
OrderStatuses == {"pending", "processing", "shipped", "delivered", "cancelled"}

\* an admin picks a status for an order: updateStatusMutation
AdminUpdateStatus(id, status) ==
  /\ id \in DOMAIN orders
  /\ has_role("admin")
  /\ \E storeOk \in BOOLEAN :
       orders' = IF storeOk /\ OrdersUpdateAllowed("admin", orders[id])
                 THEN [orders EXCEPT ![id].status = status]
                 ELSE orders
  /\ UNCHANGED <<secret, order_items, payments, stock, gateway, last, cart, sess, hnd, ncalls>>

\* ------------------------------------------------- requests from anywhere
DirectAmounts == {-1, 0, 20}
UnknownGatewayOrderId == <<"o", "9">>

\* the order ids a caller may name: every order there is, and one there is not
DirectOrderIds == DOMAIN orders \cup {0}

\* the caller has been handed the gateway's response for roid
Knows(caller, roid) ==
  \E s \in SessionIds : sess[s].user = caller /\ sess[s].rzp = roid /\ roid \in DOMAIN gwPayments

VerifyRequestsFor(caller, roid) ==
  LET pid == GatewayPaymentId(roid)
      sigs == {ForgedSignature}
              \cup (IF Knows(caller, roid) THEN {gwPayments[roid].razorpay_signature} ELSE {})
  IN { VerifyPaymentRequest(roid, pid, sig, o) : sig \in sigs, o \in DirectOrderIds }

CreateRequestsOf(amounts) ==
  { CreateOrderRequest(o, a) : o \in DirectOrderIds, a \in amounts }

DirectRequests(caller) ==
  { OtherRequest("OPTIONS", ""), OtherRequest("POST", "refund") }
  \cup
  CreateRequestsOf(DirectAmounts)
  \cup
  UNION { VerifyRequestsFor(caller, roid) :
            roid \in {gwOrders[i].id : i \in 1..Len(gwOrders)} \cup {UnknownGatewayOrderId} }

\* one request out of `requests` reaches the function from outside the checkout page
Post(caller, requests) ==
  /\ ncalls < MaxDirectCalls
  /\ ncalls' = ncalls + 1
  /\ \E req \in requests : \E env \in Environments(req) :
       /\ req.action = "create-order" => Len(gwOrders) < MaxGatewayOrders
       /\ Served(caller, req, serve(caller, req, env.gw, env.payOk, env.ordOk))
  /\ UNCHANGED <<secret, order_items, stock, gwPayments, cart, sess, hnd>>

\* any client holding (or lacking) a session token posts to the function
DirectCall(caller) == Post(caller, DirectRequests(caller))

\* a client posts create-order for an amount that can be paid
DirectCreate(caller) == Post(caller, CreateRequestsOf({a \in DirectAmounts : a > 0}))

Next ==
  \/ \E s \in SessionIds : Submit(s)
  \/ \E s \in SessionIds : InsertItem(s)
  \/ \E s \in SessionIds : BeginPayment(s)
  \/ \E s \in SessionIds : PaymentFailed(s)
  \/ \E s \in SessionIds : Dismiss(s)
  \/ \E s \in SessionIds, d \in Deliveries : WidgetSuccess(s, d)
  \/ \E s \in SessionIds, d \in Deliveries : TamperedSuccess(s, d)
  \/ \E s \in SessionIds, d \in Deliveries : HandlerVerify(s, d)
  \/ \E s \in SessionIds, d \in Deliveries : HandlerRead(s, d)
  \/ \E s \in SessionIds, d \in Deliveries : HandlerWrite(s, d)

\* the checkout page, start to finish
Spec == Init /\ [][Next]_vars

NextApi ==
  \/ \E s \in SessionIds : Submit(s)
  \/ \E s \in SessionIds : InsertItem(s)
  \/ \E s \in SessionIds : BeginPayment(s)
  \/ \E s \in SessionIds : WidgetSuccess(s, 1)
  \/ \E s \in SessionIds : HandlerVerify(s, 1)
  \/ \E caller \in Callers : DirectCall(caller)

\* the function as any client can call it, beside a checkout that has reached the widget
SpecApi == Init /\ [][NextApi]_vars

NextAnon ==
  \/ \E s \in SessionIds : Submit(s)
  \/ \E s \in SessionIds : InsertItem(s)
  \/ \E s \in SessionIds : BeginPayment(s)
  \/ \E s \in SessionIds : WidgetSuccess(s, 1)
  \/ \E s \in SessionIds : HandlerVerify(s, 1)
  \/ DirectCall(NoUser)

\* requests without a session token, beside a checkout that has reached the widget
SpecAnon == Init /\ [][NextAnon]_vars

NextBegin ==
  \/ \E s \in SessionIds : Submit(s)
  \/ \E s \in SessionIds : InsertItem(s)
  \/ \E s \in SessionIds : BeginPayment(s)
  \/ \E caller \in Users : DirectCreate(caller)

\* create-order as the checkout page and any signed-in client call it
SpecBegin == Init /\ [][NextBegin]_vars

NextOrders ==
  \/ \E s \in SessionIds : Submit(s)
  \/ \E s \in SessionIds : InsertItem(s)
  \/ \E s \in SessionIds : BeginPayment(s)
  \/ \E s \in SessionIds : WidgetSuccess(s, 1)
  \/ \E s \in SessionIds : HandlerVerify(s, 1)
  \/ \E s \in SessionIds : LoadOrders(s)
  \/ \E s \in SessionIds, id \in DOMAIN orders : CancelOrder(s, id)
  \/ \E id \in DOMAIN orders, status \in OrderStatuses : AdminUpdateStatus(id, status)

\* an order from checkout to confirmation, beside the orders page and the admin page
SpecOrders == Init /\ [][NextOrders]_vars

\* two browsers check out side by side
TwoSessions == {"s1", "s2"}

\* carts of one line each, of the same variant in different quantities
TwoCarts == { <<CartItem("v1", 2, 5)>>, <<CartItem("v1", 1, 5)>> }

InitTwo == InitOver(TwoSessions, {<<"k", "1">>}, TwoCarts)

NextTwo ==
  \/ \E s \in TwoSessions : SubmitOf(s, {ValidForm})
  \/ \E s \in TwoSessions : InsertItem(s)
  \/ \E s \in TwoSessions : BeginPayment(s)
  \/ \E s \in TwoSessions : WidgetSuccess(s, 1)
  \/ \E s \in TwoSessions : HandlerVerify(s, 1)
  \/ \E s \in TwoSessions : HandlerRead(s, 1)
  \/ \E s \in TwoSessions : HandlerWrite(s, 1)

\* two checkouts of the same variants, their steps interleaved
SpecTwo == InitTwo /\ [][NextTwo]_vars

NextForm ==
  \/ \E s \in SessionIds : SubmitAny(s)
  \/ \E s \in SessionIds : InsertItem(s)
  \/ \E s \in SessionIds : BeginPayment(s)
  \/ \E s \in SessionIds : Dismiss(s)

\* submissions of every kind of address, up to the widget and back to the form
SpecForm == Init /\ [][NextForm]_vars

NextLive ==
  \/ \E s \in SessionIds : Submit(s)
  \/ \E s \in SessionIds : InsertItem(s)
  \/ \E s \in SessionIds : BeginPayment(s)
  \/ \E s \in SessionIds : PaymentFailed(s)
  \/ \E s \in SessionIds : Dismiss(s)
  \/ \E s \in SessionIds : WidgetSuccess(s, 1)
  \/ \E s \in SessionIds : HandlerVerify(s, 1)
  \/ \E s \in SessionIds : HandlerRead(s, 1)
  \/ \E s \in SessionIds : HandlerWrite(s, 1)

\* every awaited call of handleSubmit and of handler settles and its continuation
\* runs, and an open widget ends in a payment or a dismissal
Fairness ==
  \A s \in SessionIds :
    /\ WF_vars(InsertItem(s))
    /\ WF_vars(BeginPayment(s))
    /\ WF_vars(WidgetSuccess(s, 1) \/ Dismiss(s))
    /\ WF_vars(HandlerVerify(s, 1))
    /\ WF_vars(HandlerRead(s, 1))
    /\ WF_vars(HandlerWrite(s, 1))

\* the checkout page with one delivery of the success callback, run to its end
SpecLive == Init /\ [][NextLive]_vars /\ Fairness

\* ------------------------------------------------- the signature check alone
SigSecrets == {<<"k", "1">>, <<"k", "2">>}
SigOrderIds == {<<"o", "1">>, <<"o", "9">>}
SigPaymentIds == {<<"p", "1">>}
UpperHex(c) ==
  CASE c = "a" -> "A" [] c = "b" -> "B" [] c = "c" -> "C"
    [] c = "d" -> "D" [] c = "e" -> "E" [] c = "f" -> "F" [] OTHER -> c

\* the genuine signature, every one-character change of it, and some other shapes
SigCandidates(genuine) ==
  {genuine}
  \cup { [genuine EXCEPT ![i] = HexDigits[k]] : i \in 1..Len(genuine), k \in 1..Len(HexDigits) }
  \cup { [i \in 1..Len(genuine) |-> UpperHex(genuine[i])],
         SubSeq(genuine, 1, Len(genuine) - 1), genuine \o <<"0">>, <<>> }

InitSig == InitWith(SigSecrets)

\* verify-payment posted with a payload of the caller's choosing
SigProbe(caller) ==
  /\ ncalls < MaxDirectCalls
  /\ ncalls' = ncalls + 1
  /\ \E roid \in SigOrderIds, pid \in SigPaymentIds :
       \E sig \in SigCandidates(createHmacSha256(secret, SignedBody(roid, pid))) :
         LET req == VerifyPaymentRequest(roid, pid, sig, 1)
         IN Served(caller, req, serve(caller, req, "ok", TRUE, TRUE))
  /\ UNCHANGED <<secret, order_items, stock, gwPayments, cart, sess, hnd>>

NextSig == \E caller \in Users : SigProbe(caller)

SpecSig == InitSig /\ [][NextSig]_vars

\* a first and a second run of the handler
GateDeliveries == {1, 2}

NextGate ==
  \/ \E s \in SessionIds : Submit(s)
  \/ \E s \in SessionIds : InsertItem(s)
  \/ \E s \in SessionIds : BeginPayment(s)
  \/ \E s \in SessionIds, d \in GateDeliveries : WidgetSuccess(s, d)
  \/ \E s \in SessionIds, d \in GateDeliveries : TamperedSuccess(s, d)
  \/ \E s \in SessionIds, d \in GateDeliveries : HandlerVerify(s, d)
  \/ \E s \in SessionIds, d \in GateDeliveries : HandlerRead(s, d)
  \/ \E s \in SessionIds, d \in GateDeliveries : HandlerWrite(s, d)

\* the success handler, for responses the gateway issued and for tampered ones
SpecGate == Init /\ [][NextGate]_vars

NextCancel ==
  \/ \E s \in SessionIds : Submit(s)
  \/ \E s \in SessionIds : InsertItem(s)
  \/ \E s \in SessionIds : BeginPayment(s)
  \/ \E s \in SessionIds : PaymentFailed(s)
  \/ \E s \in SessionIds : Dismiss(s)

\* checkouts that end in a failed payment or a dismissed widget
SpecCancel == Init /\ [][NextCancel]_vars

\* carts of one and of two lines
TotalsCarts == Carts \cup TwoCarts \cup { <<CartItem("v2", 3, 7), CartItem("v1", 1, 5)>> }

InitTotals == InitOver(SessionIds, {<<"k", "1">>}, TotalsCarts)

\* checkouts of several carts, up to the widget and back to the form
SpecTotals == InitTotals /\ [][NextCancel]_vars

\* verify-payment requests carrying the signature the gateway issues for their ids
SignedRequests ==
  { VerifyPaymentRequest(roid, pid, GatewaySignature(roid, pid), o) :
      roid \in SigOrderIds, pid \in SigPaymentIds, o \in DirectOrderIds }

\* a client posts verify-payment with a payload the gateway has signed
ConfirmProbe(caller) == Post(caller, SignedRequests)

NextConfirm ==
  \/ \E s \in SessionIds : Submit(s)
  \/ \E s \in SessionIds : InsertItem(s)
  \/ \E s \in SessionIds : BeginPayment(s)
  \/ \E caller \in Users : ConfirmProbe(caller)

\* verify-payment with correctly signed payloads, beside a checkout up to the widget
SpecConfirm == Init /\ [][NextConfirm]_vars

\* ------------------------------------------------------------- properties
\* this step is a run of the edge function; last' describes it
Called == last'.tick # last.tick

IsVerify(l) == l.caller \in Users /\ l.req.method = "POST" /\ l.req.action = "verify-payment"
IsCreate(l) == l.caller \in Users /\ l.req.method = "POST" /\ l.req.action = "create-order"

\* what the gateway would have signed for the ids of a request
Genuine(req) == GatewaySignature(req.razorpay_order_id, req.razorpay_payment_id)

RowsOf(p, roid) == {i \in 1..Len(p) : p[i].razorpay_order_id = roid}

OrderStatusesUnchanged ==
  /\ DOMAIN orders' = DOMAIN orders
  /\ \A id \in DOMAIN orders : orders'[id].status = orders[id].status

\* C1: a verify-payment call whose signature differs from the HMAC of
\* "order_id|payment_id" changes no order status and no stock, and afterwards
\* every payment row with that razorpay_order_id has status 'failed'.
C1_TamperedConfirmMarksFailed ==
  [][ (Called /\ IsVerify(last') /\ ~last'.outage
         /\ last'.req.razorpay_signature # Genuine(last'.req))
      => /\ OrderStatusesUnchanged
         /\ stock' = stock
         /\ \A i \in RowsOf(payments', last'.req.razorpay_order_id) :
               payments'[i].status = "failed" ]_vars

\* C4: after verify-payment is called by the non-admin owner with the matching
\* signature for an existing pending payment, that payment row is 'completed'
\* and stores the supplied payment id and signature.
C4_OwnerConfirmCompletesPayment ==
  [][ (Called /\ IsVerify(last') /\ ~last'.outage /\ ~has_role(last'.caller)
         /\ last'.req.razorpay_signature = Genuine(last'.req))
      => \A i \in RowsOf(payments, last'.req.razorpay_order_id) :
            (payments[i].status = "pending" /\ payments[i].user_id = last'.caller)
            => /\ payments'[i].status = "completed"
               /\ payments'[i].razorpay_payment_id = last'.req.razorpay_payment_id
               /\ payments'[i].razorpay_signature = last'.req.razorpay_signature ]_vars

\* C5: a payment row that is 'completed' or 'failed' keeps that status for ever.
C5_PaymentStatusTerminal ==
  [][ \A i \in 1..Len(payments) :
        payments[i].status \in {"completed", "failed"}
        => payments'[i].status = payments[i].status ]_vars

\* C7: create-order and verify-payment called by an authenticated user for an
\* order of another user are rejected (never answered 200), insert no payment
\* row for that order and leave the order's status alone.
C7_ForeignOrderRejected ==
  [][ (Called /\ (IsCreate(last') \/ IsVerify(last'))
         /\ last'.req.orderId \in DOMAIN orders
         /\ orders[last'.req.orderId].user_id # last'.caller)
      => /\ last'.resp.status # 200
         /\ ~\E i \in 1..Len(payments') :
               i > Len(payments) /\ payments'[i].order_id = last'.req.orderId
         /\ orders'[last'.req.orderId].status = orders[last'.req.orderId].status ]_vars

\* C8: a request without an authenticated user sends nothing to the gateway
\* and writes no payment, order or stock record, and unless it is a CORS
\* preflight it is answered 401 'Unauthorized' whatever action it names.
C8_UnauthenticatedRejected ==
  [][ (Called /\ last'.caller = NoUser)
      => /\ last'.req.method # "OPTIONS"
            => (last'.resp.status = 401 /\ last'.resp.error = "Unauthorized")
         /\ UNCHANGED <<orders, order_items, payments, stock, gwRequests, gwOrders,
                        gwPayments>> ]_vars

C8_Witness ==
  /\ last.caller = NoUser
  /\ last.req.action = "create-order"
  /\ last.resp.status = 401
  /\ Len(payments) = 1
  /\ Len(gwOrders) = 1

\* C9: create-order answers with an error and writes no payment row when the
\* gateway is unreachable or rejects; it hands out a razorpay_order_id only
\* together with a new 'pending' payment row carrying that id; and the
\* checkout page has the widget open only for a gateway order with such a row.
C9_CreateOrderAllOrNothing ==
  [][ /\ (Called /\ IsCreate(last'))
         => /\ last'.resp.status # 200
               => (payments' = payments /\ last'.resp.razorpay_order_id = NoId)
            /\ last'.resp.status = 200
               => /\ Len(payments') = Len(payments) + 1
                  /\ SubSeq(payments', 1, Len(payments)) = payments
                  /\ payments'[Len(payments')].status = "pending"
                  /\ payments'[Len(payments')].razorpay_order_id
                       = last'.resp.razorpay_order_id
                  /\ last'.resp.razorpay_order_id # NoId
      /\ \A s \in SessionIds :
           sess'[s].pc = "widget"
           => \E i \in 1..Len(payments') :
                /\ payments'[i].razorpay_order_id = sess'[s].rzp
                /\ payments'[i].order_id = sess'[s].order ]_vars

C9_Witness ==
  /\ IsCreate(last)
  /\ last.resp.status = 500
  /\ last.resp.error = "Failed to store payment record"
  /\ Len(gwOrders) = 2
  /\ Len(payments) = 1
  /\ \E s \in SessionIds : sess[s].pc = "widget" /\ sess[s].rzp = payments[1].razorpay_order_id

\* C10: create-order called with an amount that is zero or negative is
\* rejected, sends nothing to the gateway and writes no payment row.
C10_NonPositiveAmountRejected ==
  [][ (Called /\ IsCreate(last') /\ last'.req.amount <= 0)
      => /\ last'.resp.status # 200
         /\ [amount |-> last'.req.amount * 100, receipt |-> last'.req.orderId]
              \notin gwRequests'
         /\ payments' = payments ]_vars

\* ------------------------------------------------- the checkout flow
QuantityOf(items, v) ==
  LET hits == {i \in 1..Len(items) : items[i].variantId = v}
  IN IF hits = {} THEN 0 ELSE items[CHOOSE i \in hits : TRUE].quantity

\* C2: when the success callback is delivered twice with the same valid payload
\* and the order has been confirmed, no variant's stock has gone down by more
\* than the item's quantity (one decrement per item, not two).
C2_DuplicateDeliveryDecrementsOnce ==
  \A s \in SessionIds :
    (sess[s].order \in DOMAIN orders /\ orders[sess[s].order].status = "confirmed")
    => \A v \in Variants : stock[v] >= InitStock - QuantityOf(sess[s].items, v)

\* C3: when the handler of a single delivery has run to its end after
\* verify-payment answered valid:true, the order is 'confirmed' and every
\* variant's stock is its earlier value minus the item's quantity.
C3_ConfirmedAndDecremented ==
  \A s \in SessionIds :
    (hnd[s][1].pc = "finished" /\ hnd[s][2].pc = "idle")
    => /\ orders[sess[s].order].status = "confirmed"
       /\ \A v \in Variants : stock[v] = InitStock - QuantityOf(sess[s].items, v)

\* ------------------------------------------------- the signature check
DiffersSomewhere(a, b) ==
  Len(a) # Len(b) \/ \E i \in 1..Len(a) : a[i] # b[i]

\* C6: verify-payment accepts the hex HMAC of "order_id|payment_id" under the
\* secret, and rejects every signature that differs from it in any character.
C6_ExactlyGenuineAccepted ==
  IsVerify(last)
  => /\ ~DiffersSomewhere(last.req.razorpay_signature, Genuine(last.req))
        => (last.resp.status = 200 /\ last.resp.valid)
     /\ DiffersSomewhere(last.req.razorpay_signature, Genuine(last.req))
        => (last.resp.status = 400 /\ ~last.resp.valid)

\* a signature wrong in its last character alone has been rejected
C6_Witness ==
  /\ IsVerify(last)
  /\ ~last.resp.valid
  /\ Len(last.req.razorpay_signature) = Len(Genuine(last.req))
  /\ \A i \in 1..(Len(Genuine(last.req)) - 1) :
        last.req.razorpay_signature[i] = Genuine(last.req)[i]
  /\ last.req.razorpay_signature # Genuine(last.req)

\* ------------------------------------------------- payment rows and their orders
\* C11: every payment row references an order, and its amount, when it is one
\* the gateway can charge (positive), equals that order's total (an order's
\* total is fixed when the order is inserted).
C11_PaymentAmountIsOrderTotal ==
  \A i \in 1..Len(payments) :
    /\ payments[i].order_id \in DOMAIN orders
    /\ payments[i].amount > 0 => payments[i].amount = orders[payments[i].order_id].total

\* ------------------------------------------------- the inventory step
\* C12: no variant's stock_quantity is ever negative: the handler writes no
\* stock below zero when the variant holds less than the item's quantity.
C12_StockNeverNegative ==
  \A v \in Variants : stock[v] >= 0

\* ------------------------------------------------- store failures in verify-payment
\* C13: when the payment update or the order update of a verify-payment run
\* fails with a store error, the run does not answer valid:true.
C13_StoreErrorNotReportedAsSuccess ==
  [][ (Called /\ IsVerify(last') /\ last'.outage)
      => ~(last'.resp.status = 200 /\ last'.resp.valid) ]_vars

\* ------------------------------------------------- signed payloads without a payment row
\* C14: verify-payment called with a correctly signed payload whose
\* razorpay_order_id matches no payment row does not answer valid:true and
\* changes no order's status.
C14_UnknownGatewayOrderNotFound ==
  [][ (Called /\ IsVerify(last') /\ ~last'.outage
         /\ last'.req.orderId \in DOMAIN orders
         /\ last'.req.razorpay_signature = Genuine(last'.req)
         /\ RowsOf(payments, last'.req.razorpay_order_id) = {})
      => /\ ~(last'.resp.status = 200 /\ last'.resp.valid)
         /\ OrderStatusesUnchanged ]_vars

\* ------------------------------------------------- concurrent confirmations
\* C15: when two confirmations of the same payment have both been answered
\* valid:true, in whatever order their steps interleave, no variant's stock has
\* gone down by more than the item's quantity.
C15_ConcurrentConfirmDecrementsOnce ==
  \A s \in SessionIds :
    (hnd[s][1].valid /\ hnd[s][2].valid)
    => \A v \in Variants : stock[v] >= InitStock - QuantityOf(sess[s].items, v)

\* ------------------------------------------------- confirmed orders
\* C16: a verify-payment run that meets no store error sets the order named by
\* its orderId to 'confirmed' only if a payment row found by its
\* razorpay_order_id references that order and is 'completed' afterwards.
C16_ConfirmedOnlyWithCompletedPayment ==
  [][ (Called /\ IsVerify(last') /\ ~last'.outage
         /\ last'.req.orderId \in DOMAIN orders
         /\ orders[last'.req.orderId].status # "confirmed"
         /\ orders'[last'.req.orderId].status = "confirmed")
      => \E i \in RowsOf(payments', last'.req.razorpay_order_id) :
            /\ payments'[i].order_id = last'.req.orderId
            /\ payments'[i].status = "completed" ]_vars

\* ------------------------------------------------- repeated create-order
\* C17: a successful create-order inserts exactly one payment row, 'pending',
\* with the order_id of the request and a razorpay_order_id no existing row
\* has, and leaves every existing payment row and every order row as it was.
C17_CreateOrderInsertsOneFreshRow ==
  [][ (Called /\ IsCreate(last') /\ last'.resp.status = 200)
      => /\ Len(payments') = Len(payments) + 1
         /\ SubSeq(payments', 1, Len(payments)) = payments
         /\ payments'[Len(payments')].status = "pending"
         /\ payments'[Len(payments')].order_id = last'.req.orderId
         /\ \A i \in 1..Len(payments) :
               payments[i].razorpay_order_id # payments'[Len(payments')].razorpay_order_id
         /\ orders' = orders ]_vars

\* create-order has succeeded twice for one order
C17_Witness ==
  /\ IsCreate(last)
  /\ last.resp.status = 200
  /\ Len(payments) = 2
  /\ payments[1].order_id = payments[2].order_id
  /\ payments[1].razorpay_order_id # payments[2].razorpay_order_id
  /\ payments[2].razorpay_order_id = last.resp.razorpay_order_id

\* C18: every order has at most one payment row that is 'pending'.
C18_AtMostOnePendingPayment ==
  \A id \in DOMAIN orders :
    Cardinality({i \in 1..Len(payments) :
                   payments[i].order_id = id /\ payments[i].status = "pending"}) <= 1

\* ------------------------------------------------- the success handler's gate
\* C19: the cart is cleared, the page moves to the orders view and stock is
\* written only by a handler run to which verify-payment has answered
\* valid:true; a run whose verification failed or returned an error does
\* nothing further.
C19_ClearAndNavigateOnlyAfterValid ==
  [][ \A s \in SessionIds :
        /\ (cart'[s] # cart[s] \/ stock' # stock
               \/ (sess'[s].pc = "orders" /\ sess[s].pc # "orders"))
           => \E d \in Deliveries : hnd[s][d].valid /\ hnd'[s][d] # hnd[s][d]
        /\ \A d \in Deliveries :
              /\ hnd[s][d].pc = "returned" => hnd'[s][d] = hnd[s][d]
              /\ hnd'[s][d].pc \in {"read", "write", "finished"} => hnd'[s][d].valid ]_vars

\* one run was refused with a forged signature and returned, a later one ran to its end
C19_Witness ==
  \E s \in SessionIds :
    /\ hnd[s][1].forged /\ hnd[s][1].pc = "returned" /\ ~hnd[s][1].valid
    /\ hnd[s][2].pc = "finished" /\ hnd[s][2].valid
    /\ cart[s] = <<>>
    /\ sess[s].pc = "orders"

\* ------------------------------------------------- failure and dismissal
\* C20: a payment failure reported by the gateway and a dismissal of the widget
\* change no order, order item, payment row, stock or cart: the order and its
\* payment row stay 'pending' and the cart keeps its items.
C20_FailureAndDismissChangeNothing ==
  [][ \A s \in SessionIds :
        (PaymentFailed(s) \/ Dismiss(s))
        => /\ UNCHANGED <<orders, order_items, payments, stock, cart>>
           /\ orders'[sess[s].order].status = "pending"
           /\ \A i \in RowsOf(payments', sess[s].rzp) : payments'[i].status = "pending"
           /\ RowsOf(payments', sess[s].rzp) # {}
           /\ cart'[s] # <<>> ]_vars

\* the widget has been dismissed: the page is back at the form with everything in place
C20_Witness ==
  \E s \in SessionIds :
    /\ sess[s].pc = "form" /\ ~sess[s].loading /\ sess[s].rzp # NoId
    /\ cart[s] # <<>>
    /\ orders[sess[s].order].status = "pending"
    /\ \E i \in RowsOf(payments, sess[s].rzp) : payments[i].status = "pending"
    /\ stock = [v \in Variants |-> InitStock]

\* C21: an order whose status is 'delivered' or 'cancelled' keeps that status through
\* every later operation: verify-payment for it, a cancellation by its user, a status
\* update by an administrator.
C21_DeliveredAndCancelledAreTerminal ==
  [][\A id \in DOMAIN orders :
       orders[id].status \in {"delivered", "cancelled"}
         => orders'[id].status = orders[id].status]_vars

\* C22: a cancellation by a user changes an order's status only if the order belongs
\* to that user and its status, at the moment of the update, is 'pending' or
\* 'processing', whatever has happened to the order since the page rendered it
\* (stated for users who are not administrators).
C22_CancelOnlyWhilePendingOrProcessing ==
  [][\A s \in SessionIds, id \in DOMAIN orders :
       (~has_role(sess[s].user) /\ CancelOrder(s, id)
          /\ orders'[id].status # orders[id].status)
         => /\ orders[id].user_id = sess[s].user
            /\ orders[id].status \in {"pending", "processing"}]_vars

\* the order of the checkout in browser s has been confirmed
ConfirmedOrderOf(s) ==
  sess[s].order \in DOMAIN orders /\ orders[sess[s].order].status = "confirmed"

\* C23: stock is decremented exactly once per confirmed order item across orders:
\* however the inventory steps of two confirmed orders of the same variant interleave, every
\* write that takes effect lowers the stock of the variant, as it is when the write
\* happens, by the quantity of the item (a write that fails leaves it alone), so that
\* the final stock is the initial stock less both quantities and no decrement is lost.
C23_NoLostStockUpdate ==
  [][\A s \in TwoSessions :
       (HandlerWrite(s, 1) /\ \A c \in TwoSessions : ConfirmedOrderOf(c))
         => LET item == sess[s].items[hnd[s][1].idx]
            IN \/ stock'[item.variantId] = stock[item.variantId]
               \/ stock'[item.variantId] = stock[item.variantId] - item.quantity]_vars

\* the rows of order_items that belong to order id, in the order of their insertion
RECURSIVE ItemRowsOf(_, _)
ItemRowsOf(rows, id) ==
  IF rows = <<>> THEN <<>>
  ELSE IF Head(rows).order_id = id
       THEN <<Head(rows)>> \o ItemRowsOf(Tail(rows), id)
       ELSE ItemRowsOf(Tail(rows), id)

\* order id is stored with one item row for every line of the cart it was made from
StoredWithAllItems(id) ==
  /\ id \in DOMAIN orders
  /\ \E c \in Carts :
       LET rows == ItemRowsOf(order_items, id)
       IN /\ Len(rows) = Len(c)
          /\ \A i \in 1..Len(c) : /\ rows[i].variant_id = c[i].variantId
                                   /\ rows[i].quantity = c[i].quantity

\* C24: create-order is invoked only after the order row and every one of its item
\* rows have been inserted: whenever the function has been called for an order, the
\* gateway holds an order for it or a payment row references it, the order is stored
\* with all its items; a submission that failed on the way leaves neither a gateway
\* order nor a payment row for its order.
C24_CreateOrderOnlyAfterOrderAndItems ==
  /\ IsCreate(last) => StoredWithAllItems(last.req.orderId)
  /\ \A g \in gwRequests : StoredWithAllItems(g.receipt)
  /\ \A i \in 1..Len(payments) : StoredWithAllItems(payments[i].order_id)

\* one submission has failed at its second item, the next has reached the gateway
C24_Witness ==
  /\ DOMAIN orders = {1, 2}
  /\ Len(ItemRowsOf(order_items, 1)) = 1
  /\ StoredWithAllItems(2)
  /\ gwRequests # {} /\ \A g \in gwRequests : g.receipt = 2
  /\ Len(payments) = 1 /\ payments[1].order_id = 2

\* the address has an empty name, street, city or state, a ZIP code shorter than 5
\* or longer than 10, or a phone number shorter than 10 or longer than 15
FailsValidation(form) ==
  \/ form.fullName = 0 \/ form.address = 0 \/ form.city = 0 \/ form.state = 0
  \/ form.zipCode < 5 \/ form.zipCode > 10
  \/ form.phone < 10 \/ form.phone > 15

\* C25: a submission whose address fails validation creates no order, no order item
\* and no payment row, reaches neither the function nor the gateway, and leaves the
\* page on the form.
C25_InvalidAddressCreatesNothing ==
  [][\A s \in SessionIds :
       (SubmitAny(s) /\ FailsValidation(sess'[s].form))
         => /\ UNCHANGED <<orders, order_items, payments, stock>>
            /\ UNCHANGED <<gwRequests, gwOrders, gwPayments>>
            /\ ~Called
            /\ sess'[s].pc = "form" /\ ~sess'[s].loading]_vars

\* after one order has been placed, the form was submitted with a phone number of
\* nine characters and there is still that one order and its one payment
C25_Witness ==
  \E s \in SessionIds :
    /\ sess[s].form = [ValidForm EXCEPT !.phone = 9]
    /\ sess[s].pc = "form"
    /\ DOMAIN orders = {1}
    /\ Len(payments) = 1
    /\ Len(order_items) = Len(cart[s])

\* the widget opened for the checkout in browser s has reported a failed payment:
\* only the payment.failed listener resets loading while the widget stays open
FailureReported(s) == sess[s].pc = "widget" /\ ~sess[s].loading

\* C26: the widget resumes a checkout once, with one of success, failure and
\* cancellation: in particular no success callback, and so no verify-payment, follows
\* a payment failure reported for the same widget session.
C26_NoSuccessAfterReportedFailure ==
  [][\A s \in SessionIds, d \in Deliveries :
       WidgetSuccess(s, d) => ~FailureReported(s)]_vars

\* C27: the stock check at add-to-cart bounds the cart: after any sequence of
\* additions from the product page and presses of the plus and minus buttons of the
\* cart page, no line's quantity exceeds the stock of its variant (which no step
\* here changes, so that it is the stock read when the line was last added).
C27_CartQuantityWithinStock ==
  \A s \in SessionIds : \A i \in 1..Len(cart[s]) :
    cart[s][i].quantity <= stock[cart[s][i].variantId]

\* at most one line per variant, every quantity positive
WellFormedCart(items) ==
  /\ \A i \in 1..Len(items) : items[i].quantity > 0
  /\ \A i \in 1..Len(items), j \in 1..Len(items) :
       items[i].variantId = items[j].variantId => i = j

\* C29: starting from an empty cart, after any sequence of addItem (with positive
\* quantities), updateQuantity, removeItem and clearCart the cart holds at most one
\* line per variant and every quantity is positive; addItem for a variant already
\* in the cart adds to that line's quantity instead of adding a line, and
\* updateQuantity with a quantity <= 0 removes the line.
C29_CartLinesUniqueAndPositive ==
  [][\A s \in SessionIds :
       /\ WellFormedCart(cart'[s])
       /\ \A v \in Variants, q \in CartQuantities :
            (AddItem(s, v, q) /\ findIndex(cart[s], v) > 0)
              => /\ Len(cart'[s]) = Len(cart[s])
                 /\ QuantityOfLines(cart'[s], v) = QuantityOfLines(cart[s], v) + q
       /\ \A v \in Variants, q \in {-1, 0} :
            UpdateQuantity(s, v, q) => findIndex(cart'[s], v) = 0]_vars

\* both variants are in the cart, one of them after two additions
C29_Witness ==
  \E s \in SessionIds :
    /\ Len(cart[s]) = 2
    /\ cart[s][1].variantId = "v2" /\ cart[s][1].quantity = MaxCartQuantity
    /\ cart[s][2].variantId = "v1" /\ cart[s][2].quantity = 1

\* the sum of quantity x unit price over the first n of the lines
RECURSIVE SumOfLines(_, _)
SumOfLines(lines, n) ==
  IF n = 0 THEN 0
  ELSE SumOfLines(lines, n - 1) + lines[n].quantity * lines[n].price

\* the sum of total_price over the first n of the rows
RECURSIVE SumOfRowTotals(_, _)
SumOfRowTotals(rows, n) ==
  IF n = 0 THEN 0 ELSE SumOfRowTotals(rows, n - 1) + rows[n].total_price

\* C28: every order row created by checkout has total = subtotal + shipping_cost,
\* with shipping_cost 10 and subtotal the sum of price x quantity over the lines of
\* the cart it was made from (and so, once all its items are stored, the sum of
\* their total prices); every order item row has total_price = quantity x unit_price.
C28_OrderTotalsAddUp ==
  /\ \A id \in DOMAIN orders :
       /\ orders[id].total = orders[id].subtotal + orders[id].shipping_cost
       /\ orders[id].shipping_cost = 10
       /\ \A s \in SessionIds :
            sess[s].order = id
              => LET rows == ItemRowsOf(order_items, id)
                 IN /\ orders[id].subtotal = SumOfLines(sess[s].items, Len(sess[s].items))
                    /\ Len(rows) = Len(sess[s].items)
                         => orders[id].subtotal = SumOfRowTotals(rows, Len(rows))
  /\ \A i \in 1..Len(order_items) :
       order_items[i].total_price = order_items[i].quantity * order_items[i].unit_price

\* the order of three units at 7 and one at 5 is stored with its two items
C28_Witness ==
  \E id \in DOMAIN orders :
    /\ orders[id].subtotal = 26 /\ orders[id].total = 36
    /\ Len(ItemRowsOf(order_items, id)) = 2
    /\ ItemRowsOf(order_items, id)[1].total_price = 21

\* C30: every checkout submission eventually leaves 'loading' or navigates away:
\* once handleSubmit has set loading, whatever the outcome (store error, create-order
\* error, widget dismissed, payment failed, verification failed, verification
\* succeeded), loading is reset or the page moves to the orders view.
C30_LoadingEventuallyLeft ==
  \A s \in SessionIds :
    sess[s].loading ~> (~sess[s].loading \/ sess[s].pc = "orders")

====
